---------------------------- MODULE Spec2Model ----------------------------
(***************************************************************************)
(* A model of one invocation of the webpack loader resolveUrlLoader        *)
(* (packages/resolve-url-loader/index.js).  The loader validates its       *)
(* configuration, loads the incoming source-map, chooses a CSS engine,     *)
(* runs it behind a promise and completes through the webpack callback.    *)
(*                                                                         *)
(* The state is the loader context and the two arguments (the inputs),     *)
(* the local variables of the function, the position reached in it (pc),   *)
(* and what the invocation did to the outside world: the diagnostics       *)
(* emitted, the collaborators called, the value returned, the callback     *)
(* invocations and the exception that escaped, if any.  A content is the   *)
(* sequence of the urls of its url() statements; firstPass remembers the   *)
(* invocation before when the loader runs a second time over its output.   *)
(***************************************************************************)
EXTENDS Naturals, Sequences, FiniteSets

VARIABLES
  loader,             \* the loader context ("this"): context, query, options, sourceMap
  content,            \* argument: the css content
  sourceMap,          \* argument and local: the incoming source-map (reassigned at line 87)
  options,            \* local: the merged options (undefined until line 42)
  absSourceMap,       \* local: the source-map in absolute format
  sourceMapConsumer,  \* local: the SourceMapConsumer
  reworked,           \* the value the engine's promise is fulfilled with
  failure,            \* the reason the promise chain is rejected with
  pc,                 \* position in resolveUrlLoader and its promise chain
  diag,               \* sequence of diagnostics emitted (emitError / emitWarning)
  calls,              \* sequence of the collaborators called, in order
  returned,           \* what the synchronous call returned
  cb,                 \* sequence of the invocations of the async callback
  thrown,             \* the exception that escaped the invocation, if any
  firstPass,          \* input and output of the invocation before, when this is a second pass
  configured          \* history: the loader's own options before the first invocation

vars == <<loader, content, sourceMap, options, absSourceMap, sourceMapConsumer,
          reworked, failure, pc, diag, calls, returned, cb, thrown, firstPass, configured>>

inputs == <<loader, content>>

\* what the model remembers across invocations
history == <<firstPass, configured>>

Range(s) == {s[i] : i \in 1..Len(s)}

---------------------------------------------------------------------------
(* Bounds of the model *)

\* "attempts" ranges over 1..MaxAttempts (and undefined)
MaxAttempts == 2

\* an Error's stack has 1..MaxStackLines lines
MaxStackLines == 2

---------------------------------------------------------------------------
(* Javascript values, as far as the loader distinguishes them *)

Undefined == [type |-> "undefined", num |-> 0, str |-> ""]
Null      == [type |-> "null", num |-> 0, str |-> ""]
Bool(b)   == [type |-> "boolean", num |-> IF b THEN 1 ELSE 0, str |-> ""]
Num(n)    == [type |-> "number", num |-> n, str |-> ""]
Str(s)    == [type |-> "string", num |-> 0, str |-> s]
\* a function object: which object it is (=== compares that) and its source
\* text (what String() gives)
Fn(id, text) == [type |-> "function", num |-> id, str |-> text]

\* the truthiness of a value
Truthy(v) ==
  CASE v.type \in {"undefined", "null"} -> FALSE
    [] v.type = "boolean" -> v.num = 1
    [] v.type = "number" -> v.num # 0
    [] v.type = "string" -> v.str # ""
    [] OTHER -> TRUE

\* the function the loader requires from ./lib/default-join
defaultJoin == Fn(1, "function defaultJoin() {}")

\* a join function of the configuration
customJoin == Fn(2, "function customJoin() {}")

\* another function of the configuration, written as the default is
defaultJoinCopy == Fn(3, "function defaultJoin() {}")

---------------------------------------------------------------------------
(* The value of url(): the path resolver and the declaration transformer,  *)
(* which are outside index.js.  A url is the sequence of its characters    *)
(* and a content is the sequence of the urls of its url() statements.      *)

\* a url made of a prefix, a path and a query or hash
Url(prefix, path, suffix) == prefix \o path \o suffix

Letters == {"c", "f", "h", "i", "q", "s", "x"}

\* the url has a protocol scheme, or starts with two slashes
IsAbsoluteUrl(t) ==
  \/ \E n \in 2..Len(t) : t[n] = ":" /\ \A m \in 1..(n - 1) : t[m] \in Letters
  \/ Len(t) >= 2 /\ t[1] = "/" /\ t[2] = "/"

\* the url is an absolute filesystem path
IsAbsolutePath(t) == Len(t) >= 1 /\ t[1] = "/"

\* the position of the first "?" or "#" of the url, beyond its end if none
FirstMark(t) ==
  IF \E n \in 1..Len(t) : t[n] \in {"?", "#"}
  THEN CHOOSE n \in 1..Len(t) :
         t[n] \in {"?", "#"} /\ \A m \in 1..(n - 1) : t[m] \notin {"?", "#"}
  ELSE Len(t) + 1

\* the path of the url and its trailing query or hash
UriOf(t) == SubSeq(t, 1, FirstMark(t) - 1)
QueryOf(t) == SubSeq(t, FirstMark(t), Len(t))

\* loader.context, the directory the output is relative to
ContextDirectory == <<"/", "c">>

\* the directories of the original sources the source-map may lead to: the
\* context directory and one below it
OriginalDirectories == {ContextDirectory, ContextDirectory \o <<"/", "s">>}

\* the naive join of a directory and a relative path
Join(directory, uri) == directory \o <<"/">> \o uri

\* the path relative to the directory, for a path below it
Relative(directory, absolute) ==
  IF /\ Len(absolute) > Len(directory) + 1
     /\ SubSeq(absolute, 1, Len(directory) + 1) = directory \o <<"/">>
  THEN SubSeq(absolute, Len(directory) + 2, Len(absolute))
  ELSE absolute

\* ResolveUrl without step 1: an absolute url or path is joined like any other
ResolveUrl_RewritesAbsolute(directory, t, opts) ==
  (IF Truthy(opts.absolute) THEN Join(directory, UriOf(t))
   ELSE Relative(ContextDirectory, Join(directory, UriOf(t))))
  \o (IF Truthy(opts.keepQuery) THEN QueryOf(t) ELSE <<>>)

\* ResolveUrl re-appending the query or hash whatever keepQuery is
ResolveUrl_KeepsQuery(directory, t, opts) ==
  IF IsAbsoluteUrl(t) \/ IsAbsolutePath(t) THEN t
  ELSE (IF Truthy(opts.absolute) THEN Join(directory, UriOf(t))
        ELSE Relative(ContextDirectory, Join(directory, UriOf(t))))
       \o QueryOf(t)

\* the path resolver, when the join succeeds: an absolute url or path passes
\* through; a relative one is joined to the original directory, emitted
\* absolute or relative to the context, with its query when keepQuery
ResolveUrl(directory, t, opts) ==
  IF IsAbsoluteUrl(t) \/ IsAbsolutePath(t) THEN t
  ELSE (IF Truthy(opts.absolute) THEN Join(directory, UriOf(t))
        ELSE Relative(ContextDirectory, Join(directory, UriOf(t))))
       \o (IF Truthy(opts.keepQuery) THEN QueryOf(t) ELSE <<>>)

\* TransformUrl resolving also without a SourceMapConsumer
TransformUrl_IgnoresConsumer(t, consumer, opts) ==
  {t} \cup {ResolveUrl(d, t, opts) : d \in OriginalDirectories}

\* what the declaration transformer may put for one url: without a
\* SourceMapConsumer, or when no original location is found or the join
\* fails, the url itself; else the url resolved in the original directory
TransformUrl(t, consumer, opts) ==
  IF consumer = "undefined" THEN {t}
  ELSE {t} \cup {ResolveUrl(d, t, opts) : d \in OriginalDirectories}

\* what the declaration transformer may make of the urls of a content
RECURSIVE TransformValue(_, _, _)
TransformValue(c, consumer, opts) ==
  IF c = <<>> THEN {<<>>}
  ELSE {<<h>> \o r : h \in TransformUrl(Head(c), consumer, opts),
                     r \in TransformValue(Tail(c), consumer, opts)}

---------------------------------------------------------------------------
(* Options *)

OptionKeys == {"absolute", "sourceMap", "engine", "fail", "silent", "keepQuery",
               "attempts", "join", "debug", "root", "includeRoot"}

\* an options object that sets nothing
NoOptions == [k \in OptionKeys |-> Undefined]

\* the third argument of defaults(): the built-in default of every option
BuiltinDefaults(ldr) ==
  [absolute    |-> Bool(FALSE),
   sourceMap   |-> Bool(ldr.sourceMap),
   engine      |-> Str("rework"),
   fail        |-> Bool(FALSE),
   silent      |-> Bool(FALSE),
   keepQuery   |-> Bool(FALSE),
   attempts    |-> Num(1),
   join        |-> defaultJoin,
   debug       |-> Bool(FALSE),
   root        |-> Null,
   includeRoot |-> Bool(FALSE)]

\* lodash.defaults: a key takes the value of the first source in which it is
\* not undefined
defaults(object, source1, source2) ==
  [k \in OptionKeys |->
     IF object[k] # Undefined THEN object[k]
     ELSE IF source1[k] # Undefined THEN source1[k]
     ELSE source2[k]]

\* loaderUtils.getOptions(loader): the loader's own options or query
getOptions(ldr) == ldr.query

\* !!loader.options && loader.options[camelcase(PACKAGE_NAME)]
LegacyOptions(ldr) == IF ldr.optionsDefined THEN ldr.options ELSE NoOptions

\* MergedOptions with the first two arguments of defaults() exchanged
MergedOptions_LegacyFirst(ldr) ==
  defaults(LegacyOptions(ldr), getOptions(ldr), BuiltinDefaults(ldr))

\* lines 42-58: the effective options
MergedOptions(ldr) == defaults(getOptions(ldr), LegacyOptions(ldr), BuiltinDefaults(ldr))

---------------------------------------------------------------------------
(* The file system and the engine directory *)

\* the working directory of the process, and the directory of index.js
Cwd == "/cwd"
PackageDirectory == "/pkg"

\* the files of lib/engine
EngineFiles == {"/pkg/lib/engine/rework.js"}

\* the file being executed and the package.json of line 18
PackageFiles == {"/pkg/index.js", "/pkg/package.json"}

\* the modules of lines 15-16
LibraryFiles == {"/pkg/lib/value-processor.js", "/pkg/lib/default-join.js"}

\* the directories: the root, the working directory, loader.context, the
\* package with its lib and lib/engine, and those of the inputs
Directories == {"/", "/cwd", "/c", "/pkg", "/pkg/lib", "/pkg/lib/engine", "/dir", "/cwd/dir"}

\* what fs finds at a normalised absolute path; fs.statSync fails on
\* "/unreadable" although fs.existsSync found it
FsKind(p) ==
  CASE p \in Directories -> "directory"
    [] p \in {"/file"} \cup PackageFiles \cup LibraryFiles \cup EngineFiles -> "file"
    [] p = "/unreadable" -> "unreadable"
    [] OTHER -> "missing"

\* the segments of a path: what stands between its slashes
RECURSIVE SplitFrom(_, _, _)
SplitFrom(p, i, segment) ==
  IF i > Len(p) THEN <<segment>>
  ELSE IF SubSeq(p, i, i) = "/" THEN <<segment>> \o SplitFrom(p, i + 1, "")
  ELSE SplitFrom(p, i + 1, segment \o SubSeq(p, i, i))

Split(p) == SplitFrom(p, 1, "")

\* the segments of an absolute path without "", "." and "..": ".." drops the
\* segment before it and does nothing at the root
RECURSIVE NormalizeSegments(_, _)
NormalizeSegments(segments, done) ==
  IF segments = <<>> THEN done
  ELSE IF Head(segments) \in {"", "."} THEN NormalizeSegments(Tail(segments), done)
  ELSE IF Head(segments) = ".."
  THEN NormalizeSegments(Tail(segments),
                         IF done = <<>> THEN done ELSE SubSeq(done, 1, Len(done) - 1))
  ELSE NormalizeSegments(Tail(segments), Append(done, Head(segments)))

RECURSIVE JoinSegments(_)
JoinSegments(segments) ==
  IF segments = <<>> THEN "" ELSE "/" \o Head(segments) \o JoinSegments(Tail(segments))

\* the normal form of an absolute path
NormalizeAbsolute(p) ==
  IF NormalizeSegments(Split(p), <<>>) = <<>> THEN "/"
  ELSE JoinSegments(NormalizeSegments(Split(p), <<>>))

\* path.resolve(p): a relative path is taken from the working directory, and
\* the result is normalised, without a trailing slash
PathResolve(p) ==
  IF Len(p) >= 1 /\ SubSeq(p, 1, 1) = "/"
  THEN NormalizeAbsolute(p)
  ELSE NormalizeAbsolute(Cwd \o "/" \o p)

\* path.join(__dirname, 'lib', 'engine', file): the segments joined by slashes
\* and normalised
PathJoinEngine(file) ==
  NormalizeAbsolute(PackageDirectory \o "/" \o "lib" \o "/" \o "engine" \o "/" \o file)

\* fs.existsSync(p)
FsExists(p) == FsKind(p) # "missing"

\* line 71: (typeof options.root === 'string') && path.resolve(options.root) || undefined
resolvedRoot(opts) ==
  IF opts.root.type = "string" /\ Truthy(Str(PathResolve(opts.root.str)))
  THEN Str(PathResolve(opts.root.str))
  ELSE Undefined

\* line 72: fs.statSync(resolvedRoot) is reached and throws
RootStatThrows(opts) ==
  /\ Truthy(resolvedRoot(opts))
  /\ FsExists(resolvedRoot(opts).str)
  /\ FsKind(resolvedRoot(opts).str) = "unreadable"

\* line 72: resolvedRoot && fs.existsSync(resolvedRoot) && fs.statSync(resolvedRoot).isDirectory()
isValidRoot(opts) ==
  /\ Truthy(resolvedRoot(opts))
  /\ FsExists(resolvedRoot(opts).str)
  /\ FsKind(resolvedRoot(opts).str) = "directory"

\* the characters \w matches
WordChars ==
  {"a", "b", "c", "d", "e", "f", "g", "h", "i", "j", "k", "l", "m",
   "n", "o", "p", "q", "r", "s", "t", "u", "v", "w", "x", "y", "z",
   "A", "B", "C", "D", "E", "F", "G", "H", "I", "J", "K", "L", "M",
   "N", "O", "P", "Q", "R", "S", "T", "U", "V", "W", "X", "Y", "Z",
   "0", "1", "2", "3", "4", "5", "6", "7", "8", "9", "_"}

Digits == <<"0", "1", "2", "3", "4", "5", "6", "7", "8", "9">>

\* String(n) of a natural number
RECURSIVE NumString(_)
NumString(n) ==
  IF n < 10 THEN Digits[n + 1] ELSE NumString(n \div 10) \o Digits[(n % 10) + 1]

\* String(v), the conversion RegExp.test and the + of line 108 apply; the
\* string of a function is its source text
ToString(v) ==
  CASE v.type = "undefined" -> "undefined"
    [] v.type = "null" -> "null"
    [] v.type = "boolean" -> IF v.num = 1 THEN "true" ELSE "false"
    [] v.type = "number" -> NumString(v.num)
    [] OTHER -> v.str

\* /^\w+/.test(v): the string of v starts with a word character
TestWord(v) ==
  Len(ToString(v)) >= 1 /\ SubSeq(ToString(v), 1, 1) \in WordChars

\* line 108: /^\w+/.test(options.engine) && path.join(__dirname, 'lib', 'engine', options.engine + '.js')
enginePath(opts) ==
  IF TestWord(opts.engine)
  THEN Str(PathJoinEngine(ToString(opts.engine) \o ".js"))
  ELSE Bool(FALSE)

\* line 109: fs.existsSync(enginePath)
isValidEngine(opts) ==
  /\ enginePath(opts).type = "string"
  /\ FsExists(enginePath(opts).str)

---------------------------------------------------------------------------
(* Source-maps and exceptions *)

\* typeof sourceMap === 'string'
IsStringMap(m) == m \in {"json string", "garbage string"}

\* JSON.parse succeeds on the string
JsonParses(m) == m = "json string"

\* the values a collaborator may throw or reject with
Exceptions ==
  {[type |-> "string", stackLines |-> 0], [type |-> "other", stackLines |-> 0],
   [type |-> "nullish", stackLines |-> 0]}
  \cup {[type |-> "Error", stackLines |-> n] : n \in 1..MaxStackLines}

\* what the promise chain is rejected with: the exception, and which call of
\* the chain threw it
Rejection(e, origin) == [type |-> e.type, stackLines |-> e.stackLines, origin |-> origin]

NoException == [type |-> "none", stackLines |-> 0, origin |-> "none"]

---------------------------------------------------------------------------
(* handleException, lines 149-161 *)

\* lines 150-153: building the message reads exception.stack.split('\n')[1].trim(),
\* which throws a TypeError when the stack has no second line
MessageThrows(exception) ==
  exception.type = "Error" /\ exception.stackLines < 2

\* Severity without the isCritical override: "fail" and "silent" decide alone
Severity_IgnoresCritical(isCritical, opts) ==
  IF Truthy(opts.fail) THEN "error"
  ELSE IF ~Truthy(opts.silent) THEN "warning"
  ELSE "none"

\* lines 154-159: the channel the message goes to
Severity(isCritical, opts) ==
  IF isCritical \/ Truthy(opts.fail) THEN "error"
  ELSE IF ~Truthy(opts.silent) THEN "warning"
  ELSE "none"

\* a collaborator call, as recorded in the log of calls
Call(fn, arg) == [fn |-> fn, arg |-> arg]

\* lines 153-159: the diagnostics after the message is emitted on the channel
Emit(d, channel, label, detail) ==
  IF channel = "none" THEN d
  ELSE Append(d, [channel |-> channel, label |-> label, detail |-> detail])

\* HandleException with the two tests of lines 154-158 independent of each
\* other: an error is followed by a warning unless "silent"
HandleException_NoElse(log, label, detail, isCritical) ==
  /\ diag' = Emit(Emit(diag, IF isCritical \/ Truthy(options.fail) THEN "error" ELSE "none",
                       label, detail),
                  IF ~Truthy(options.silent) THEN "warning" ELSE "none", label, detail)
  /\ calls' = Append(log, Call("handleException", label))

\* handleException(label, exception, isCritical) where the message can be built:
\* emits on the channel of its severity; log is the calls made up to it
HandleException(log, label, detail, isCritical) ==
  /\ diag' = Emit(diag, Severity(isCritical, options), label, detail)
  /\ calls' = Append(log, Call("handleException", label))

\* "return handleException(...)" in the synchronous part: the original content
\* is the value returned
ReturnException(log, label, detail, isCritical) ==
  /\ HandleException(log, label, detail, isCritical)
  /\ returned' = [kind |-> "content", content |-> content]
  /\ pc' = "returned"

---------------------------------------------------------------------------
(* Inputs *)

\* the css contents of the model, each the url() tokens of its declarations:
\* a relative url with a query, and a relative url followed by one with a scheme
Contents ==
  {<<Url(<<>>, <<"i", "/", "x">>, <<"?", "q">>)>>,
   <<Url(<<>>, <<"i", "/", "x">>, <<>>), Url(<<"h", ":">>, <<"i", "/", "x">>, <<>>)>>}

SourceMaps == {"undefined", "object", "json string", "garbage string"}

QueryInputs ==
  {[NoOptions EXCEPT !["fail"] = f, !["silent"] = s, !["sourceMap"] = m,
                     !["attempts"] = a, !["join"] = j, !["root"] = r, !["engine"] = e] :
     f \in {Undefined, Bool(TRUE)},
     s \in {Undefined, Bool(TRUE)},
     m \in {Undefined, Bool(TRUE), Bool(FALSE)},
     a \in {Undefined} \cup {Num(n) : n \in 1..MaxAttempts},
     j \in {Undefined, customJoin, Str("notAFunction")},
     r \in {Undefined, Bool(FALSE), Str("/dir"), Str("/file"), Str("/missing"), Num(42),
             Str("/unreadable")},
     e \in {Undefined, Null, Str("nosuch"), Str("../rework")}}

\* own options whose paths are not in normal form, and a join function that is
\* not the default although it reads the same
PathQueryInputs ==
  {[NoOptions EXCEPT !["root"] = Str("/missing/../dir")],
   [NoOptions EXCEPT !["root"] = Str("dir")],
   [NoOptions EXCEPT !["root"] = Str("/dir/../missing")],
   [NoOptions EXCEPT !["root"] = Str("/")],
   [NoOptions EXCEPT !["root"] = Str("..")],
   [NoOptions EXCEPT !["root"] = Str("/dir/..")],
   [NoOptions EXCEPT !["engine"] = Str("rework/../rework")],
   [NoOptions EXCEPT !["engine"] = Str("rework/../../../index")],
   [NoOptions EXCEPT !["engine"] = Str("rework/../nosuch")],
   [NoOptions EXCEPT !["join"] = defaultJoinCopy, !["attempts"] = Num(MaxAttempts)]}

\* the own options that are given as a query string in the model ('' when
\* they set nothing); a string holds no function
StringQueryInputs ==
  {q \in QueryInputs :
     /\ q["join"] = Undefined
     /\ q["attempts"] = Undefined
     /\ q["engine"] = Undefined
     /\ q["root"] \in {Undefined, Str("/dir")}}

LegacyInputs == {[NoOptions EXCEPT !["sourceMap"] = Bool(TRUE)]}

\* loader.options is undefined (webpack 4) or holds a resolveUrlLoader object
LegacyLoaders ==
  {[optionsDefined |-> FALSE, options |-> NoOptions]}
  \cup {[optionsDefined |-> TRUE, options |-> l] : l \in LegacyInputs}

\* loader.query is an options object, or a string (queryString) that
\* loaderUtils.getOptions parses into such an object, or fails to parse
Loaders ==
  {[contextRelative |-> c, queryString |-> FALSE, queryParses |-> TRUE, query |-> q,
    optionsDefined |-> g.optionsDefined, options |-> g.options, sourceMap |-> sm] :
     c \in BOOLEAN, q \in QueryInputs \cup PathQueryInputs, g \in LegacyLoaders,
     sm \in BOOLEAN}
  \cup
  {[contextRelative |-> c, queryString |-> TRUE, queryParses |-> TRUE, query |-> q,
    optionsDefined |-> g.optionsDefined, options |-> g.options, sourceMap |-> sm] :
     c \in BOOLEAN, q \in StringQueryInputs, g \in LegacyLoaders, sm \in BOOLEAN}
  \cup
  {[contextRelative |-> c, queryString |-> TRUE, queryParses |-> FALSE, query |-> NoOptions,
    optionsDefined |-> FALSE, options |-> NoOptions, sourceMap |-> FALSE] :
     c \in BOOLEAN}

\* the invocation is a first pass
NoFirstPass == [input |-> <<>>, output |-> <<>>]

\* nothing returned yet
NoValue == [kind |-> "none", content |-> <<>>]

\* the promise is not fulfilled yet
NoResult == [content |-> <<>>, map |-> "undefined"]

Init ==
  /\ loader \in Loaders
  /\ content \in Contents
  /\ sourceMap \in SourceMaps
  /\ options = NoOptions
  /\ absSourceMap = "undefined"
  /\ sourceMapConsumer = "undefined"
  /\ reworked = NoResult
  /\ failure = NoException
  /\ pc = "start"
  /\ diag = <<>>
  /\ calls = <<>>
  /\ returned = NoValue
  /\ cb = <<>>
  /\ thrown = "none"
  /\ firstPass = NoFirstPass
  /\ configured = loader.query

---------------------------------------------------------------------------
(* The engine and the source-map codec: collaborators outside index.js *)

\* what the engine may produce for a content: every declaration goes through
\* the declaration transformer made from the options, with the
\* SourceMapConsumer if there is one; the engine makes a map exactly when
\* outputSourceMap is set
EngineResults(c, consumer, outputSourceMap, opts) ==
  {[content |-> x, map |-> IF outputSourceMap THEN "engine map" ELSE "undefined"] :
     x \in TransformValue(c, consumer, opts)}

\* adjustSourceMap(loader, {format: ...}, map), when it does not throw
AdjustSourceMap(format, map) == IF map = "undefined" THEN "undefined" ELSE format

\* an invocation of the async callback
Callback(err, c, map, nargs) == [err |-> err, content |-> c, map |-> map, nargs |-> nargs]

---------------------------------------------------------------------------
(* resolveUrlLoader, the synchronous part: lines 27-124 *)

\* lines 33-36: a relative loader.context is a problem
CheckContext ==
  /\ pc = "start"
  /\ IF loader.contextRelative
     THEN /\ ReturnException(calls, "webpack misconfiguration",
                             "loader.context is relative, expected absolute", TRUE)
          /\ UNCHANGED <<options>>
     ELSE /\ pc' = "options"
          /\ UNCHANGED <<options, diag, calls, returned>>
  /\ UNCHANGED <<inputs, history, sourceMap, absSourceMap, sourceMapConsumer, reworked, failure,
                 cb, thrown>>

\* lines 42-58: the options are merged.  When loader.query is an object,
\* loaderUtils.getOptions returns that object and defaults() writes into it
\* every key it leaves undefined, so that options and loader.query are one
\* object afterwards; when it is a string, getOptions returns a new object
\* (null for the empty string) and loader.query stays what it was, or throws
\* when it cannot parse the string
GetOptions ==
  /\ pc = "options"
  /\ IF loader.queryParses
     THEN /\ options' = MergedOptions(loader)
          /\ loader' = IF loader.queryString THEN loader
                       ELSE [loader EXCEPT !.query = MergedOptions(loader)]
          /\ pc' = "attempts"
          /\ thrown' = thrown
     ELSE /\ thrown' = "getOptions"
          /\ pc' = "threw"
          /\ UNCHANGED <<options, loader>>
  /\ calls' = Append(calls, Call("getOptions", ""))
  /\ UNCHANGED <<content, history, sourceMap, absSourceMap, sourceMapConsumer, reworked,
                 failure, diag, returned, cb>>

\* CheckAttempts rejecting "attempts" with a custom join instead of the default
CheckAttempts_CustomJoin ==
  /\ pc = "attempts"
  /\ IF (options.join # defaultJoin) /\ (options.attempts # Num(1))
     THEN ReturnException(calls, "loader misconfiguration",
                          "\"attempts\" option now requires \"join\" function", TRUE)
     ELSE /\ pc' = "join"
          /\ UNCHANGED <<diag, calls, returned>>
  /\ UNCHANGED <<inputs, history, sourceMap, options, absSourceMap, sourceMapConsumer, reworked,
                 failure, cb, thrown>>

\* lines 60-63: attempts are discontinued
CheckAttempts ==
  /\ pc = "attempts"
  /\ IF (options.join = defaultJoin) /\ (options.attempts # Num(1))
     THEN ReturnException(calls, "loader misconfiguration",
                          "\"attempts\" option now requires \"join\" function", TRUE)
     ELSE /\ pc' = "join"
          /\ UNCHANGED <<diag, calls, returned>>
  /\ UNCHANGED <<inputs, history, sourceMap, options, absSourceMap, sourceMapConsumer, reworked,
                 failure, cb, thrown>>

\* lines 65-68: validate join option
CheckJoin ==
  /\ pc = "join"
  /\ IF options.join.type # "function"
     THEN ReturnException(calls, "loader misconfiguration",
                          "\"join\" option must be a Function", TRUE)
     ELSE /\ pc' = "root"
          /\ UNCHANGED <<diag, calls, returned>>
  /\ UNCHANGED <<inputs, history, sourceMap, options, absSourceMap, sourceMapConsumer, reworked,
                 failure, cb, thrown>>

\* lines 70-78: validate root directory, where specified; then loader.cacheable()
\* fs.statSync of line 72 stands outside any try: what it throws leaves the loader
CheckRoot ==
  /\ pc = "root"
  /\ IF RootStatThrows(options)
     THEN /\ thrown' = "fs.statSync"
          /\ pc' = "threw"
          /\ UNCHANGED <<diag, calls, returned>>
     ELSE IF Truthy(options.root) /\ ~isValidRoot(options)
     THEN /\ ReturnException(calls, "loader misconfiguration",
                             "\"root\" option does not resolve to a valid directory", TRUE)
          /\ thrown' = thrown
     ELSE /\ pc' = "sourceMap"
          /\ calls' = Append(calls, Call("loader.cacheable", ""))
          /\ UNCHANGED <<diag, returned, thrown>>
  /\ UNCHANGED <<inputs, history, sourceMap, options, absSourceMap, sourceMapConsumer, reworked,
                 failure, cb>>

\* lines 82-92: the incoming source-map, parsed where it is a string
ParseSourceMap ==
  /\ pc = "sourceMap"
  /\ IF sourceMap = "undefined"
     THEN /\ pc' = "engine"
          /\ UNCHANGED <<sourceMap, diag, calls, returned>>
     ELSE IF ~IsStringMap(sourceMap)
     THEN /\ pc' = "adjust"
          /\ UNCHANGED <<sourceMap, diag, calls, returned>>
     ELSE IF JsonParses(sourceMap)
     THEN /\ sourceMap' = "object"
          /\ calls' = Append(calls, Call("JSON.parse", ""))
          /\ pc' = "adjust"
          /\ UNCHANGED <<diag, returned>>
     ELSE /\ ReturnException(Append(calls, Call("JSON.parse", "")), "source-map error",
                             "cannot parse source-map string (from less-loader?)", FALSE)
          /\ UNCHANGED <<sourceMap>>
  /\ UNCHANGED <<inputs, history, options, absSourceMap, sourceMapConsumer, reworked, failure,
                 cb, thrown>>

\* lines 94-101: the codec puts the source-map in absolute format, or throws;
\* the catch block reads exception.message (line 100), which throws in its
\* turn when what was thrown is null or undefined
AdjustAbsolute ==
  /\ pc = "adjust"
  /\ \/ /\ absSourceMap' = AdjustSourceMap("absolute", sourceMap)
        /\ calls' = Append(calls, Call("adjustSourceMap", "absolute"))
        /\ pc' = "consumer"
        /\ UNCHANGED <<diag, returned, thrown>>
     \/ \E e \in Exceptions :
          IF e.type = "nullish"
          THEN /\ thrown' = "exception.message"
               /\ pc' = "threw"
               /\ calls' = Append(calls, Call("adjustSourceMap", "absolute"))
               /\ UNCHANGED <<absSourceMap, diag, returned>>
          ELSE /\ ReturnException(Append(calls, Call("adjustSourceMap", "absolute")),
                                  "source-map error", "exception.message", FALSE)
               /\ UNCHANGED <<absSourceMap, thrown>>
  /\ UNCHANGED <<inputs, history, sourceMap, options, sourceMapConsumer, reworked, failure,
                 cb>>

\* line 104: new SourceMapConsumer(absSourceMap), outside any try
NewConsumer ==
  /\ pc = "consumer"
  /\ \E ok \in BOOLEAN :
       IF ok
       THEN /\ sourceMapConsumer' = "consumer"
            /\ pc' = "engine"
            /\ thrown' = thrown
       ELSE /\ thrown' = "SourceMapConsumer"
            /\ pc' = "threw"
            /\ sourceMapConsumer' = sourceMapConsumer
  /\ calls' = Append(calls, Call("SourceMapConsumer", ""))
  /\ UNCHANGED <<inputs, history, sourceMap, options, absSourceMap, reworked, failure, diag,
                 returned, cb>>

\* ChooseEngine without the "return": the invalid engine is reported and the
\* invocation goes on
ChooseEngine_NoReturn ==
  /\ pc = "engine"
  /\ IF ~isValidEngine(options)
     THEN /\ HandleException(calls, "loader misconfiguration",
                             "\"engine\" option is not valid", TRUE)
          /\ pc' = "async"
          /\ returned' = returned
     ELSE /\ pc' = "async"
          /\ UNCHANGED <<diag, calls, returned>>
  /\ UNCHANGED <<inputs, history, sourceMap, options, absSourceMap, sourceMapConsumer, reworked,
                 failure, cb, thrown>>

\* lines 107-112: choose a CSS engine
ChooseEngine ==
  /\ pc = "engine"
  /\ IF ~isValidEngine(options)
     THEN ReturnException(calls, "loader misconfiguration",
                          "\"engine\" option is not valid", TRUE)
     ELSE /\ pc' = "async"
          /\ UNCHANGED <<diag, calls, returned>>
  /\ UNCHANGED <<inputs, history, sourceMap, options, absSourceMap, sourceMapConsumer, reworked,
                 failure, cb, thrown>>

\* line 115: var callback = loader.async()
Async ==
  /\ pc = "async"
  /\ calls' = Append(calls, Call("loader.async", ""))
  /\ pc' = "require"
  /\ UNCHANGED <<inputs, history, sourceMap, options, absSourceMap, sourceMapConsumer, reworked,
                 failure, diag, returned, cb, thrown>>

\* line 117: require(enginePath), the callee of the engine call, evaluated
\* before the arguments and outside any try: the module loads, or loading it
\* throws
RequireEngine ==
  /\ pc = "require"
  /\ calls' = Append(calls, Call("require", enginePath(options).str))
  /\ \/ /\ pc' = "valueProcessor"
        /\ thrown' = thrown
     \/ /\ thrown' = "require"
        /\ pc' = "threw"
  /\ UNCHANGED <<inputs, history, sourceMap, options, absSourceMap, sourceMapConsumer, reworked,
                 failure, diag, returned, cb>>

\* line 119: valueProcessor(loader.context, options), an argument of the engine
\* call, evaluated outside any try
MakeValueProcessor ==
  /\ pc = "valueProcessor"
  /\ \E ok \in BOOLEAN :
       IF ok
       THEN /\ pc' = "callEngine"
            /\ thrown' = thrown
       ELSE /\ thrown' = "valueProcessor"
            /\ pc' = "threw"
  /\ calls' = Append(calls, Call("valueProcessor", ""))
  /\ UNCHANGED <<inputs, history, sourceMap, options, absSourceMap, sourceMapConsumer, reworked,
                 failure, diag, returned, cb>>

\* CallEngine without the sourceMapConsumer among the engine's parameters
CallEngine_DropsConsumer ==
  /\ pc = "callEngine"
  /\ calls' = Append(calls, Call("engine", "undefined"))
  /\ \/ /\ thrown' = "engine"
        /\ pc' = "threw"
        /\ UNCHANGED <<reworked, returned>>
     \/ /\ \E r \in EngineResults(content, "undefined", Truthy(options.sourceMap), options) :
             reworked' = r
        /\ pc' = "onSuccess"
        /\ returned' = [kind |-> "undefined", content |-> <<>>]
        /\ thrown' = thrown
     \/ /\ pc' = "pending"
        /\ returned' = [kind |-> "undefined", content |-> <<>>]
        /\ UNCHANGED <<reworked, thrown>>
  /\ UNCHANGED <<inputs, history, sourceMap, options, absSourceMap, sourceMapConsumer, failure,
                 diag, cb>>

\* lines 116-124: the module found at enginePath, whichever file that is, is
\* called as the engine, as the argument of Promise.resolve: it throws (outside
\* the promise chain), returns a result, or returns a promise; then the chain
\* is set up and resolveUrlLoader returns undefined
CallEngine ==
  /\ pc = "callEngine"
  /\ calls' = Append(calls, Call("engine", sourceMapConsumer))
  /\ \/ /\ thrown' = "engine"
        /\ pc' = "threw"
        /\ UNCHANGED <<reworked, returned>>
     \/ /\ \E r \in EngineResults(content, sourceMapConsumer, Truthy(options.sourceMap), options) :
             reworked' = r
        /\ pc' = "onSuccess"
        /\ returned' = [kind |-> "undefined", content |-> <<>>]
        /\ thrown' = thrown
     \/ /\ pc' = "pending"
        /\ returned' = [kind |-> "undefined", content |-> <<>>]
        /\ UNCHANGED <<reworked, thrown>>
  /\ UNCHANGED <<inputs, history, sourceMap, options, absSourceMap, sourceMapConsumer, failure,
                 diag, cb>>

---------------------------------------------------------------------------
(* The promise chain: lines 116-140 *)

\* the promise the engine returned is fulfilled or rejected
EngineSettles ==
  /\ pc = "pending"
  /\ \/ /\ \E r \in EngineResults(content, sourceMapConsumer, Truthy(options.sourceMap), options) :
             reworked' = r
        /\ pc' = "onSuccess"
        /\ failure' = failure
     \/ /\ \E e \in Exceptions : failure' = Rejection(e, "engine")
        /\ pc' = "onFailure"
        /\ reworked' = reworked
  /\ UNCHANGED <<inputs, history, sourceMap, options, absSourceMap, sourceMapConsumer, diag,
                 calls, returned, cb, thrown>>

\* lines 132 and 134: the callback returns, or it throws, which rejects the
\* promise of then() and so reaches onFailure
CallbackEnds ==
  \/ /\ pc' = "done"
     /\ failure' = failure
  \/ /\ \E e \in Exceptions : failure' = Rejection(e, "callback")
     /\ pc' = "onFailure"

\* onSuccess without the test of options.sourceMap: the map is always adjusted
\* and passed on
onSuccess_AlwaysMap ==
  /\ pc = "onSuccess"
  /\ calls' = Append(calls, Call("adjustSourceMap", "sourceRelative"))
  /\ \/ /\ cb' = Append(cb, Callback("null", reworked.content,
                                     AdjustSourceMap("sourceRelative", reworked.map), 3))
        /\ CallbackEnds
     \/ /\ \E e \in Exceptions : failure' = Rejection(e, "adjustSourceMap")
        /\ pc' = "onFailure"
        /\ cb' = cb
  /\ UNCHANGED <<inputs, history, sourceMap, options, absSourceMap, sourceMapConsumer, reworked,
                 diag, returned, thrown>>

\* lines 126-136: complete with the source-map in sourceRelative format when
\* options.sourceMap, with the content alone otherwise; an exception of the
\* codec, or of the callback, rejects the chain
onSuccess ==
  /\ pc = "onSuccess"
  /\ IF Truthy(options.sourceMap)
     THEN /\ calls' = Append(calls, Call("adjustSourceMap", "sourceRelative"))
          /\ \/ /\ cb' = Append(cb, Callback("null", reworked.content,
                                             AdjustSourceMap("sourceRelative", reworked.map), 3))
                /\ CallbackEnds
             \/ /\ \E e \in Exceptions : failure' = Rejection(e, "adjustSourceMap")
                /\ pc' = "onFailure"
                /\ cb' = cb
     ELSE /\ cb' = Append(cb, Callback("null", reworked.content, "undefined", 2))
          /\ CallbackEnds
          /\ calls' = calls
  /\ UNCHANGED <<inputs, history, sourceMap, options, absSourceMap, sourceMapConsumer, reworked,
                 diag, returned, thrown>>

\* lines 138-140: callback(null, handleException('Error in CSS', error)); when
\* handleException throws, the callback is not reached and the rejection is
\* left unhandled, as it is when the callback throws
onFailure ==
  /\ pc = "onFailure"
  /\ IF MessageThrows(failure)
     THEN /\ thrown' = "handleException"
          /\ pc' = "unhandled"
          /\ calls' = Append(calls, Call("handleException", "Error in CSS"))
          /\ UNCHANGED <<diag, cb>>
     ELSE /\ HandleException(calls, "Error in CSS", "error", FALSE)
          /\ cb' = Append(cb, Callback("null", content, "undefined", 2))
          /\ \/ /\ pc' = "done"
                /\ thrown' = thrown
             \/ /\ thrown' = "callback"
                /\ pc' = "unhandled"
  /\ UNCHANGED <<inputs, history, sourceMap, options, absSourceMap, sourceMapConsumer, reworked,
                 failure, returned>>

---------------------------------------------------------------------------
(* The specification *)

Next ==
  \/ CheckContext
  \/ GetOptions
  \/ CheckAttempts
  \/ CheckJoin
  \/ CheckRoot
  \/ ParseSourceMap
  \/ AdjustAbsolute
  \/ NewConsumer
  \/ ChooseEngine
  \/ Async
  \/ RequireEngine
  \/ MakeValueProcessor
  \/ CallEngine
  \/ EngineSettles
  \/ onSuccess
  \/ onFailure

Spec == Init /\ [][Next]_vars

\* the engine's promise settles and the reactions of the chain run
FairSpec == Spec /\ WF_vars(EngineSettles) /\ WF_vars(onSuccess) /\ WF_vars(onFailure)

---------------------------------------------------------------------------
(* The merge of the options alone: lines 27-58 over every key and level *)

\* the values an options object may hold under the key, besides undefined
\* left out and null
SetValues(k) ==
  CASE k = "engine" -> {Str("rework"), Str("nosuch")}
    [] k = "attempts" -> {Num(n) : n \in 1..MaxAttempts}
    [] k = "join" -> {customJoin, Str("notAFunction")}
    [] k = "root" -> {Str("/dir"), Str("/file")}
    [] OTHER -> {Bool(TRUE), Bool(FALSE)}

\* what the key holds at one level: undefined (left out, or set to undefined
\* as the test configuration sets "join"), null, or a value
LevelValues(k) == {Undefined, Null} \cup SetValues(k)

\* loaders whose own options, an object or a query string, and whose
\* loader.options.resolveUrlLoader each set one key
OptionLoaders ==
  UNION {{[contextRelative |-> FALSE,
           queryString |-> qs /\ v1.type # "function", queryParses |-> TRUE,
           query |-> [NoOptions EXCEPT ![k1] = v1],
           optionsDefined |-> d,
           options |-> IF d THEN [NoOptions EXCEPT ![k2] = v2] ELSE NoOptions,
           sourceMap |-> sm] :
            v1 \in LevelValues(k1), v2 \in LevelValues(k2), d \in BOOLEAN, sm \in BOOLEAN,
            qs \in BOOLEAN} :
         k1 \in OptionKeys, k2 \in OptionKeys}

InitOptions ==
  /\ loader \in OptionLoaders
  /\ content \in Contents
  /\ sourceMap = "undefined"
  /\ options = NoOptions
  /\ absSourceMap = "undefined"
  /\ sourceMapConsumer = "undefined"
  /\ reworked = NoResult
  /\ failure = NoException
  /\ pc = "start"
  /\ diag = <<>>
  /\ calls = <<>>
  /\ returned = NoValue
  /\ cb = <<>>
  /\ thrown = "none"
  /\ firstPass = NoFirstPass
  /\ configured = loader.query

NextOptions ==
  \/ CheckContext
  \/ GetOptions

SpecOptions == InitOptions /\ [][NextOptions]_vars

---------------------------------------------------------------------------
(* Two passes over the urls: the loader is invoked on a content, with or   *)
(* without a source-map, and then again, without one, on what it delivered *)

UrlPrefixes == {<<>>, <<"/">>, <<"/", "/">>, <<"h", ":">>}
UrlPaths == {<<"i", "/", "x">>}
UrlSuffixes == {<<>>, <<"?", "q">>, <<"#", "f">>}

UrlTokens == {Url(p, u, q) : p \in UrlPrefixes, u \in UrlPaths, q \in UrlSuffixes}

\* contents of one url() statement, or of two
DeclarationValues ==
  {<<t>> : t \in UrlTokens} \cup {<<t, u>> : t \in UrlTokens, u \in UrlTokens}

\* loaders of a valid configuration that set keepQuery and absolute or not,
\* in an options object or in a query string
TransformLoaders ==
  {[contextRelative |-> FALSE, queryString |-> qs, queryParses |-> TRUE,
    query |-> [NoOptions EXCEPT !["keepQuery"] = k, !["absolute"] = a],
    optionsDefined |-> FALSE, options |-> NoOptions, sourceMap |-> FALSE] :
     k \in {Undefined, Bool(TRUE), Bool(FALSE)}, a \in {Undefined, Bool(TRUE)},
     qs \in BOOLEAN}

InitTransform ==
  /\ loader \in TransformLoaders
  /\ content \in DeclarationValues
  /\ sourceMap \in {"undefined", "object"}
  /\ options = NoOptions
  /\ absSourceMap = "undefined"
  /\ sourceMapConsumer = "undefined"
  /\ reworked = NoResult
  /\ failure = NoException
  /\ pc = "start"
  /\ diag = <<>>
  /\ calls = <<>>
  /\ returned = NoValue
  /\ cb = <<>>
  /\ thrown = "none"
  /\ firstPass = NoFirstPass
  /\ configured = loader.query

\* the loader is invoked again, with no source-map, on the content its first
\* invocation delivered through onSuccess
SecondPass ==
  /\ pc = "done"
  /\ firstPass = NoFirstPass
  /\ Len(cb) = 1
  /\ \A i \in 1..Len(calls) : calls[i].fn # "handleException"
  /\ firstPass' = [input |-> content, output |-> cb[1].content]
  /\ content' = cb[1].content
  /\ sourceMap' = "undefined"
  /\ options' = NoOptions
  /\ absSourceMap' = "undefined"
  /\ sourceMapConsumer' = "undefined"
  /\ reworked' = NoResult
  /\ failure' = NoException
  /\ pc' = "start"
  /\ diag' = <<>>
  /\ calls' = <<>>
  /\ returned' = NoValue
  /\ cb' = <<>>
  /\ UNCHANGED <<loader, thrown, configured>>

NextTransform ==
  \/ CheckContext
  \/ GetOptions
  \/ CheckAttempts
  \/ CheckJoin
  \/ CheckRoot
  \/ ParseSourceMap
  \/ AdjustAbsolute
  \/ NewConsumer
  \/ ChooseEngine
  \/ Async
  \/ RequireEngine
  \/ MakeValueProcessor
  \/ CallEngine
  \/ EngineSettles
  \/ onSuccess
  \/ onFailure
  \/ SecondPass

SpecTransform == InitTransform /\ [][NextTransform]_vars

---------------------------------------------------------------------------
(* What an invocation did, read from the state *)

\* the invocation has ended: it returned the content, let an exception
\* escape, completed through the callback, or left a rejection unhandled
Terminated == pc \in {"returned", "threw", "done", "unhandled"}

\* the collaborator was called
Called(fn) == \E i \in 1..Len(calls) : calls[i].fn = fn

\* the collaborator was called with the argument
CalledWith(fn, arg) == \E i \in 1..Len(calls) : calls[i] = Call(fn, arg)

\* handleException was called with the label
Reported(label) == CalledWith("handleException", label)

\* the number of diagnostics emitted on the channel
Emitted(channel) == Len(SelectSeq(diag, LAMBDA d : d.channel = channel))

\* a misconfiguration was detected
MisconfigurationReported ==
  Reported("webpack misconfiguration") \/ Reported("loader misconfiguration")

\* the synchronous call returned the original content
ReturnedContent == returned = [kind |-> "content", content |-> content]

---------------------------------------------------------------------------
(* Claims *)

\* C1: every misconfiguration detected (relative loader.context, "attempts"
\* other than 1 with the default join, a "join" that is no function, a "root"
\* that is no existing directory, an "engine" that names no engine file)
\* emits exactly one error and no warning, whatever "fail" and "silent" are,
\* and the invocation returns the input content.  The first four are detected
\* whenever they are present and the options could be read.
C1_MisconfigurationIsOneError ==
  /\ MisconfigurationReported =>
       /\ Emitted("error") = 1
       /\ Emitted("warning") = 0
       /\ Len(diag) = 1
       /\ diag[1].label \in {"webpack misconfiguration", "loader misconfiguration"}
       /\ pc = "returned"
       /\ ReturnedContent
       /\ cb = <<>>
  /\ (loader.contextRelative /\ pc # "start") => Reported("webpack misconfiguration")
  /\ (/\ pc \notin {"start", "options", "attempts", "join", "root", "threw"}
      /\ \/ options.join = defaultJoin /\ options.attempts # Num(1)
         \/ options.join.type # "function"
         \/ Truthy(options.root) /\ ~isValidRoot(options))
       => MisconfigurationReported
  /\ (pc \in {"async", "require", "valueProcessor", "callEngine", "pending", "onSuccess",
              "onFailure", "done", "unhandled"})
       => isValidEngine(options) /\ ~MisconfigurationReported

\* C1 witness: an invalid engine is reported as an error although "silent" is
\* set and "fail" is not
C1_Witness ==
  /\ pc = "returned"
  /\ Truthy(options.silent) /\ ~Truthy(options.fail)
  /\ ~isValidEngine(options)
  /\ diag = <<[channel |-> "error", label |-> "loader misconfiguration",
               detail |-> "\"engine\" option is not valid"]>>
  /\ ReturnedContent

\* C2: once loader.async() was called and the engine invoked, the callback is
\* never invoked twice, and when the invocation has ended it was invoked
\* exactly once, whether the engine succeeded, rejected or threw, or the final
\* source-map adjustment threw.
C2_CallbackExactlyOnce ==
  (Called("loader.async") /\ Called("engine")) =>
    /\ Len(cb) <= 1
    /\ Terminated => Len(cb) = 1

\* C3: no exception escapes an invocation: it ends by returning content or by
\* calling the callback with content, and the content delivered on a failure
\* path is the original input content.
C3_NoExceptionEscapes ==
  /\ thrown = "none"
  /\ pc \notin {"threw", "unhandled"}
  /\ Terminated => (ReturnedContent \/ Len(cb) = 1)
  /\ (pc = "done" /\ Reported("Error in CSS")) => cb[1].content = content

\* the engine threw when called, or the promise it returned was rejected
EngineFailed ==
  \/ thrown = "engine"
  \/ failure.origin = "engine"

\* C4: when the engine throws or rejects, the callback is called with
\* (null, original content) and no map, and the failure is reported by the
\* severity rule: an error if "fail", nothing if "silent" and not "fail",
\* a warning otherwise.
C4_EngineFailureIsSoft ==
  (EngineFailed /\ Terminated) =>
    /\ cb = <<Callback("null", content, "undefined", 2)>>
    /\ diag = Emit(<<>>, IF Truthy(options.fail) THEN "error"
                         ELSE IF Truthy(options.silent) THEN "none" ELSE "warning",
                   "Error in CSS", "error")

\* C5: a source-map error (a string that fails JSON parsing, a map the codec
\* rejects) is reported on the error channel, neither as a warning nor
\* suppressed; the engine is not run and the input content is returned.
C5_SourceMapErrorIsError ==
  Reported("source-map error") =>
    /\ Emitted("error") = 1
    /\ Emitted("warning") = 0
    /\ ~Called("engine")
    /\ ReturnedContent

\* a non-critical failure was handed to handleException
SoftReported == Reported("source-map error") \/ Reported("Error in CSS")

\* C6: for every soft failure reported through handleException the severity
\* is decided by "fail" and "silent" alone: "fail" gives exactly one error and
\* no warning (also with "silent"); "silent" without "fail" gives no diagnostic;
\* neither gives exactly one warning and no error.
C6_SeverityRule ==
  SoftReported =>
    /\ Truthy(options.fail) =>
         Emitted("error") = 1 /\ Emitted("warning") = 0 /\ Len(diag) = 1
    /\ (~Truthy(options.fail) /\ Truthy(options.silent)) => diag = <<>>
    /\ (~Truthy(options.fail) /\ ~Truthy(options.silent)) =>
         Emitted("warning") = 1 /\ Emitted("error") = 0 /\ Len(diag) = 1

\* C7: in every invocation in which a misconfiguration or a source-map error
\* is reported, the engine is never invoked, the value processor is never
\* constructed and loader.async() is never called: the result is delivered by
\* the synchronous return alone.
C7_FatalShortCircuits ==
  (MisconfigurationReported \/ Reported("source-map error")) =>
    /\ ~Called("engine")
    /\ ~Called("valueProcessor")
    /\ ~Called("loader.async")
    /\ cb = <<>>
    /\ pc = "returned"
    /\ ReturnedContent

\* C7 witness: the codec rejected the source-map after the configuration was
\* found valid, and the invocation returned
C7_Witness ==
  /\ Reported("source-map error")
  /\ CalledWith("adjustSourceMap", "absolute")
  /\ Called("loader.cacheable")
  /\ isValidEngine(options)
  /\ pc = "returned"

\* no source-map was supplied and the configuration was found valid
NoMapValidConfig == sourceMap = "undefined" /\ Called("loader.async")

\* C8 as stated: with no source-map supplied and a valid configuration, the
\* content delivered equals the input content and no diagnostic is raised.
C8_NoMapNoDiagnostic ==
  NoMapValidConfig =>
    /\ \A i \in 1..Len(cb) : cb[i].content = content
    /\ diag = <<>>

\* the engine run, the final source-map adjustment or the callback failed
ChainFailed == failure.origin \in {"engine", "adjustSourceMap", "callback"}

\* C8 amended: with no source-map supplied and a valid configuration, every
\* content delivered equals the input content, no SourceMapConsumer is built,
\* and no diagnostic is raised unless the engine run, the final source-map
\* adjustment or the callback itself fails; the only diagnostic then raised
\* is one "Error in CSS", an error with "fail", a warning without, and none
\* with "silent" and not "fail".
C8_NoMapContentUnchanged ==
  NoMapValidConfig =>
    /\ \A i \in 1..Len(cb) : cb[i].content = content
    /\ ~Called("SourceMapConsumer")
    /\ ~MisconfigurationReported /\ ~Reported("source-map error")
    /\ ~ChainFailed => (diag = <<>> /\ ~Reported("Error in CSS"))
    /\ diag # <<>> =>
         /\ ChainFailed
         /\ diag = <<[channel |-> IF Truthy(options.fail) THEN "error" ELSE "warning",
                      label |-> "Error in CSS", detail |-> "error"]>>
         /\ Truthy(options.silent) => Truthy(options.fail)

\* C8 witness: without a source-map the engine succeeded and the input content
\* was delivered, with the map requested, and nothing was emitted
C8_Witness ==
  /\ NoMapValidConfig
  /\ pc = "done"
  /\ ~Reported("Error in CSS")
  /\ cb = <<Callback("null", content, "sourceRelative", 3)>>
  /\ diag = <<>>

\* the engine succeeded and onSuccess completed
DoneAfterSuccess == pc = "done" /\ ~Reported("Error in CSS")

\* C9: in the Done step after a successful engine run the callback receives
\* the engine's content together with a map in sourceRelative format if and
\* only if options.sourceMap is truthy (loader.sourceMap where no options
\* level sets it); otherwise it receives the content alone, and no map
\* adjustment to sourceRelative is performed.
C9_MapIffRequested ==
  /\ DoneAfterSuccess =>
       /\ Len(cb) = 1
       /\ cb[1].err = "null"
       /\ cb[1].content = reworked.content
       /\ Truthy(options.sourceMap) <=> (cb[1].nargs = 3 /\ cb[1].map = "sourceRelative")
       /\ ~Truthy(options.sourceMap) <=> (cb[1].nargs = 2 /\ cb[1].map = "undefined")
       /\ Truthy(options.sourceMap) <=> CalledWith("adjustSourceMap", "sourceRelative")
       /\ (configured["sourceMap"] = Undefined /\ ~loader.optionsDefined) =>
            (loader.sourceMap <=> cb[1].nargs = 3)
  /\ (Called("loader.async") /\ ~Truthy(options.sourceMap)) =>
       ~CalledWith("adjustSourceMap", "sourceRelative")

\* C9 witness: the rewritten content is delivered with the adjusted map, which
\* was requested by loader.sourceMap alone
C9_Witness ==
  /\ DoneAfterSuccess
  /\ configured["sourceMap"] = Undefined /\ ~loader.optionsDefined
  /\ loader.sourceMap
  /\ cb = <<Callback("null", reworked.content, "sourceRelative", 3)>>
  /\ reworked.content # content

\* the detail of the diagnostic of lines 60-63
AttemptsDetail == "\"attempts\" option now requires \"join\" function"

\* the "attempts" check of lines 60-63 is behind
PastAttempts == pc \notin {"start", "options", "attempts", "threw"}

\* C10 as stated: a custom "join" function together with "attempts" other
\* than 1 is rejected as a fatal misconfiguration before any processing: an
\* error is emitted, the engine is not run, the content is returned.
C10_CustomJoinWithAttemptsRejected ==
  (/\ PastAttempts
   /\ options.join.type = "function" /\ options.join # defaultJoin
   /\ options.attempts # Num(1)) =>
    /\ Emitted("error") = 1
    /\ pc = "returned"
    /\ ~Called("engine")
    /\ ReturnedContent

\* C10 amended: "attempts" other than 1 together with the default join is
\* rejected as a fatal misconfiguration before any processing: one error is
\* emitted whatever "fail" and "silent" are, nothing else is called and the
\* content is returned; with a custom "join" function "attempts" is never
\* the reason of a rejection.
C10_DefaultJoinWithAttemptsRejected ==
  /\ (PastAttempts /\ options.join = defaultJoin /\ options.attempts # Num(1)) =>
       /\ diag = <<[channel |-> "error", label |-> "loader misconfiguration",
                    detail |-> AttemptsDetail]>>
       /\ pc = "returned"
       /\ ReturnedContent
       /\ calls = <<Call("getOptions", ""), Call("handleException", "loader misconfiguration")>>
  /\ (\E i \in 1..Len(diag) : diag[i].detail = AttemptsDetail) =>
       (options.join = defaultJoin /\ options.attempts # Num(1))

\* C10 witness: attempts 2 with the default join is an error although
\* "silent" is set
C10_Witness ==
  /\ pc = "returned"
  /\ options.join = defaultJoin /\ options.attempts = Num(2)
  /\ Truthy(options.silent)
  /\ Len(diag) = 1 /\ diag[1].channel = "error" /\ diag[1].detail = AttemptsDetail

\* the options were merged (lines 42-58 are behind)
OptionsRead == Called("getOptions") /\ thrown # "getOptions"

\* the positions in the list of calls at which the collaborator was called
CallsOf(fn) == {i \in 1..Len(calls) : calls[i].fn = fn}

\* C11: all configuration validation (root existence, join-function type,
\* engine choice) comes before the source-map: whenever one of them is
\* invalid, no source-map parsing, normalization or index construction took
\* place, and what is reported is the misconfiguration, not a source-map error.
C11_ValidationBeforeMap ==
  (/\ OptionsRead
   /\ \/ options.join.type # "function"
      \/ Truthy(options.root) /\ ~isValidRoot(options)
      \/ ~isValidEngine(options)) =>
    /\ ~Called("JSON.parse")
    /\ ~CalledWith("adjustSourceMap", "absolute")
    /\ ~Called("SourceMapConsumer")
    /\ ~Reported("source-map error")
    /\ Terminated => MisconfigurationReported

\* C12: the SourceMapConsumer is constructed at most once per invocation,
\* before the engine is invoked and only for a supplied source-map: exactly
\* once when the supplied map was parsed and put in absolute format, never
\* without a map; the engine is invoked at most once and is passed that
\* consumer.
C12_ConsumerBuiltOnce ==
  /\ Cardinality(CallsOf("SourceMapConsumer")) <= 1
  /\ Cardinality(CallsOf("engine")) <= 1
  /\ sourceMap = "undefined" =>
       ~Called("SourceMapConsumer") /\ sourceMapConsumer = "undefined"
  /\ Called("SourceMapConsumer") =>
       /\ sourceMap = "object"
       /\ CalledWith("adjustSourceMap", "absolute")
       /\ ~Reported("source-map error")
  /\ (absSourceMap = "absolute" /\ pc # "consumer") =>
       Cardinality(CallsOf("SourceMapConsumer")) = 1
  /\ \A i \in CallsOf("engine") :
       /\ \A j \in CallsOf("SourceMapConsumer") : j < i
       /\ calls[i].arg = IF sourceMap = "undefined" THEN "undefined" ELSE "consumer"
       /\ calls[i].arg = "consumer" <=> Called("SourceMapConsumer")

\* C12 witness: a string source-map was parsed, the consumer built once and
\* passed to the engine, and the invocation completed
C12_Witness ==
  /\ pc = "done"
  /\ Called("JSON.parse")
  /\ Cardinality(CallsOf("SourceMapConsumer")) = 1
  /\ CalledWith("engine", "consumer")

\* the "root" option is set: neither undefined nor the default null
RootSet == options.root \notin {Undefined, Null}

\* the "root" option resolves to an existing directory
RootIsDirectory ==
  options.root.type = "string" /\ FsKind(PathResolve(options.root.str)) = "directory"

\* the "root" check of lines 70-75 is behind
PastRoot == OptionsRead /\ pc \notin {"attempts", "join", "root"}

\* C13: whenever the engine has been invoked, "root" is unset or resolves to
\* an existing directory; a set "root" that does not exist, is a file or is
\* not a string is rejected as a misconfiguration before processing begins,
\* with one error whatever "silent" is.
C13_RootValidated ==
  /\ Called("engine") => (~RootSet \/ RootIsDirectory)
  /\ (PastRoot /\ RootSet /\ ~RootIsDirectory) =>
       /\ pc = "returned"
       /\ MisconfigurationReported
       /\ Emitted("error") = 1 /\ Len(diag) = 1
       /\ ReturnedContent
       /\ ~Called("loader.cacheable") /\ ~Called("JSON.parse")
       /\ ~CalledWith("adjustSourceMap", "absolute")

\* the engine succeeded and the final adjustment of its source-map failed
FinalAdjustFailed ==
  /\ CalledWith("adjustSourceMap", "sourceRelative")
  /\ failure.origin = "adjustSourceMap"
  /\ pc \notin {"onSuccess", "onFailure"}

\* the callback's invocation delivers the rewritten content, with the map in
\* sourceRelative format when one was requested
DeliversRewritten(c) ==
  /\ reworked # NoResult
  /\ c.content = reworked.content
  /\ c = IF Truthy(options.sourceMap)
         THEN Callback("null", reworked.content, "sourceRelative", 3)
         ELSE Callback("null", reworked.content, "undefined", 2)

\* the callback's invocation delivers the original content and no map
DeliversOriginal(c) == c = Callback("null", content, "undefined", 2)

\* C16: what is delivered is the engine's rewritten content, with the adjusted
\* source-map whenever one was requested, or the original content with no map,
\* and never the rewritten content without the requested map; when the final
\* sourceRelative adjustment fails after the engine succeeded, the original
\* content is delivered and the failure is reported by the severity rule.
C16_AllOrNothing ==
  /\ \A i \in 1..Len(cb) : DeliversRewritten(cb[i]) \/ DeliversOriginal(cb[i])
  /\ returned.kind = "content" => returned.content = content
  /\ FinalAdjustFailed =>
       /\ cb = <<Callback("null", content, "undefined", 2)>>
       /\ diag = Emit(<<>>, Severity(FALSE, options), "Error in CSS", "error")

\* C18: an invocation emits at most one diagnostic, so never an error and a
\* warning and never two errors, and handleException is called at most once;
\* a diagnostic comes from a call of handleException, and a run that
\* completes without one has emitted nothing.
C18_AtMostOneDiagnostic ==
  /\ Len(diag) <= 1
  /\ Emitted("error") + Emitted("warning") = Len(diag)
  /\ Cardinality(CallsOf("handleException")) <= 1
  /\ diag # <<>> => Reported(diag[1].label)
  /\ (pc = "done" /\ ~Called("handleException")) =>
       /\ diag = <<>>
       /\ Len(cb) = 1 /\ DeliversRewritten(cb[1])

\* C18 witness: an engine failure under "fail" completed with its one error
C18_Witness ==
  /\ pc = "done"
  /\ Truthy(options.fail) /\ ~Truthy(options.silent)
  /\ diag = <<[channel |-> "error", label |-> "Error in CSS", detail |-> "error"]>>

\* the built-in default of the option, as the documentation of the options
\* lists it
DefaultOf(k) ==
  CASE k = "sourceMap" -> Bool(loader.sourceMap)
    [] k = "engine" -> Str("rework")
    [] k = "attempts" -> Num(1)
    [] k = "join" -> defaultJoin
    [] k = "root" -> Null
    [] OTHER -> Bool(FALSE)

\* C17: every option is resolved by precedence: the loader's own options or
\* query, then loader.options.resolveUrlLoader, then the built-in default
\* (absolute=false, sourceMap=loader.sourceMap, engine='rework', fail=false,
\* silent=false, keepQuery=false, attempts=1, join=defaultJoin, debug=false,
\* root=null, includeRoot=false); a key that is undefined at a level falls
\* through to the next.
C17_OptionPrecedence ==
  OptionsRead =>
    \A k \in OptionKeys :
      options[k] = IF configured[k] # Undefined THEN configured[k]
                   ELSE IF loader.optionsDefined /\ loader.options[k] # Undefined
                     THEN loader.options[k]
                   ELSE DefaultOf(k)

\* C17 witness: a key set to different values at both levels has the value of
\* the loader's own options, and "fail", set nowhere, has its default
C17_Witness ==
  /\ OptionsRead
  /\ \E k \in OptionKeys :
       /\ configured[k] \notin {Undefined, Null}
       /\ loader.optionsDefined
       /\ loader.options[k] \notin {Undefined, Null, configured[k]}
       /\ options[k] = configured[k]
  /\ options.fail = Bool(FALSE)

\* the url starts with the characters
StartsWith(t, p) == Len(t) >= Len(p) /\ SubSeq(t, 1, Len(p)) = p

\* the url is written as an absolute one: with the scheme of the model, with
\* two slashes, or as a path from the root of the filesystem
WrittenAbsolute(t) == StartsWith(t, <<"h", ":">>) \/ StartsWith(t, <<"/">>)

\* url by url, what is an absolute url in the one content is the same url in
\* the other
AbsoluteUntouched(before, after) ==
  /\ Len(after) = Len(before)
  /\ \A j \in 1..Len(before) : WrittenAbsolute(before[j]) => after[j] = before[j]

\* C14: every url() that is an absolute url (with a scheme, or starting with
\* two slashes) or an absolute filesystem path is delivered unchanged, with or
\* without a source-map, in a first pass and in a second one; and the second
\* pass, without a source-map, over the content the first delivered, delivers
\* that content again.
C14_AbsolutePassThrough ==
  /\ \A i \in 1..Len(cb) : AbsoluteUntouched(content, cb[i].content)
  /\ firstPass # NoFirstPass =>
       /\ AbsoluteUntouched(firstPass.input, firstPass.output)
       /\ content = firstPass.output
       /\ \A i \in 1..Len(cb) : cb[i].content = firstPass.output

\* C14 witness: the first pass, with a source-map, resolved a relative url
\* next to a url with a scheme, and the second pass has delivered the same
\* content
C14_Witness ==
  /\ firstPass # NoFirstPass
  /\ pc = "done" /\ Len(cb) = 1
  /\ Len(firstPass.input) = 2
  /\ firstPass.output[1] # firstPass.input[1]
  /\ StartsWith(firstPass.input[2], <<"h", ":">>)
  /\ cb[1].content = firstPass.output

\* the characters of the url from its first "?" or "#" on
TrailingPart(t) ==
  IF \E n \in 1..Len(t) : t[n] \in {"?", "#"}
  THEN SubSeq(t, CHOOSE n \in 1..Len(t) :
                   t[n] \in {"?", "#"} /\ \A m \in 1..(n - 1) : t[m] \notin {"?", "#"},
              Len(t))
  ELSE <<>>

\* keepQuery as the loader is configured: set in its own options, or false
KeepQueryConfigured == configured.keepQuery = Bool(TRUE)

\* C15: for every url() that was resolved (delivered other than it was
\* written), the query or hash of the original url ends the resolved one
\* verbatim when keepQuery is true, and the resolved one has no query or hash
\* when keepQuery is false, as it is by default.
C15_KeepQuery ==
  \A i \in 1..Len(cb) : \A j \in 1..Len(content) :
    (Len(cb[i].content) = Len(content) /\ cb[i].content[j] # content[j]) =>
      IF KeepQueryConfigured
      THEN TrailingPart(cb[i].content[j]) = TrailingPart(content[j])
      ELSE TrailingPart(cb[i].content[j]) = <<>>

\* C15 witness: a relative url with a query was resolved with keepQuery and
\* delivered with the query
C15_Witness ==
  /\ firstPass = NoFirstPass
  /\ KeepQueryConfigured
  /\ pc = "done" /\ Len(cb) = 1
  /\ content[1] = <<"i", "/", "x", "?", "q">>
  /\ cb[1].content[1] = <<"s", "/", "i", "/", "x", "?", "q">>

=============================================================================
